---- MODULE Spec2Model ----
(***************************************************************************)
(* Model of cc_utils/preprocess_shtech.py: the density-map tiling          *)
(* pipeline (start_points, arrange_crops, create_overlapping_crops,        *)
(* create_non_overlapping_crops, resize_rescale_info, create_dot_map,      *)
(* setup_sub_folders) and the driver loop of main.                         *)
(*                                                                         *)
(* Conventions.  Arrays are records [shape, px]: shape is the numpy shape  *)
(* tuple and px a 0-based matrix [row -> [col -> pixel]]; the channel axis *)
(* of an array is kept in its shape only.  Coordinates of annotated points *)
(* are floats in the code; here they are integers counted in units of      *)
(* 1/CoordDen pixel, so that int() (truncation toward zero) is visible.    *)
(* An overlap fraction is a pair <<n, d>> standing for n/d with d a power  *)
(* of two, which a binary float represents exactly.                        *)
(***************************************************************************)
EXTENDS Integers, Sequences, FiniteSets, TLC

VARIABLES
    \* ---- main: the driver loop
    args,        \* parsed arguments: mode, image_size, ndevices, nkernels, with_density
    img_list,    \* sorted glob result: the image files, in order
    sub_list,    \* result of setup_sub_folders
    device,      \* index of the current sublist (0-based, as enumerate gives it)
    idx,         \* position of the next file in the current sublist (0-based)
    count,       \* images visited so far
    pc,          \* position in main
    file,        \* the file being processed
    image,       \* the image of the current iteration
    locations,   \* the point annotations of the current iteration
    density,     \* the density field of the current iteration
    images,      \* image crops of the current iteration
    densities,   \* density crops of the current iteration
    sub_index,   \* tile pairs saved in the current iteration
    written,     \* <<part, index>>: the tile files of image index are in part_<part>
    visited,     \* the files the loop has entered, in order (history)
    error,       \* the exception that ended the run and the function that raised it
    \* ---- start_points: the loop, one iteration per step
    size, split_size, overlap, points, counter, sp_pc,
    \* ---- one call of a pure function: its name and arguments, and its result
    call, ret, fn_pc

drv_vars == <<args, img_list, sub_list, device, idx, count, pc, file, image,
              locations, density, images, densities, sub_index, written, visited,
              error>>
sp_vars  == <<size, split_size, overlap, points, counter, sp_pc>>
fn_vars  == <<call, ret, fn_pc>>
vars     == <<drv_vars, sp_vars, fn_vars>>

(***************************************************************************)
(* Bounds of the model.                                                    *)
(***************************************************************************)
MaxSize    == 8     \* axis lengths tried on start_points
MaxSplit   == 4     \* crop sizes tried on start_points
MaxIter    == 12    \* iterations of a start_points loop that are followed
MaxDim     == 4     \* image heights and widths of the pure-function calls
MaxTile    == 3     \* tile sizes of the pure-function calls
MaxList    == 4     \* length of the image list
MaxDevices == 3     \* shard counts
MaxKernels == 2     \* number of (kernel_size, sigma) pairs
MaxImgDim  == 4     \* image heights and widths in the driver
MaxCrop    == 3     \* tile sizes in the driver
CoordDen   == 2     \* point coordinates are multiples of 1/CoordDen pixel

(***************************************************************************)
(* Arithmetic helpers.                                                     *)
(***************************************************************************)
Min(a, b) == IF a <= b THEN a ELSE b
Max(a, b) == IF a >= b THEN a ELSE b

\* np.ceil(a / b) for integers a >= 0, b >= 1
CeilDiv(a, b) == (a + b - 1) \div b

\* int(x) of a float x = c / CoordDen: truncation toward zero
IntOf(c) == IF c >= 0 THEN c \div CoordDen ELSE -((-c) \div CoordDen)

\* the python slice s[lo:hi] of a list (a 1-based sequence here), 0 <= lo <= hi,
\* with python's clipping of both ends to the length
PySlice(s, lo, hi) ==
    LET n == Len(s)
        a == Min(lo, n)
        b == Min(hi, n)
    IN  IF b <= a THEN <<>> ELSE SubSeq(s, a + 1, b)

RECURSIVE Flatten(_)
Flatten(ss) == IF ss = <<>> THEN <<>> ELSE Head(ss) \o Flatten(Tail(ss))

(***************************************************************************)
(* start_points (lines 252-266).                                           *)
(***************************************************************************)
\* a plausible slip: rounding the stride up instead of truncating it
StrideCeil(split, ov) == CeilDiv(split * (ov[2] - ov[1]), ov[2])

\* line 254: stride = int(split_size * (1 - overlap)), overlap = ov[1]/ov[2]
Stride(split, ov) == (split * (ov[2] - ov[1])) \div ov[2]

\* overlap fractions n/d in [0, 1] that a float holds exactly
Overlaps == {o \in (0..4) \X {1, 2, 4} : o[1] <= o[2]}

\* the call start_points(size, split_size, overlap) has just been entered:
\* lines 253-255
StartPointsEntry(L, T, ov) ==
    /\ size = L
    /\ split_size = T
    /\ overlap = ov
    /\ points = <<0>>
    /\ counter = 1
    /\ sp_pc = "loop"

\* a plausible slip: the overrun test written with > instead of >=
StartPointsIterStrict ==
    /\ sp_pc = "loop"
    /\ counter <= MaxIter
    /\ LET pt == Stride(split_size, overlap) * counter IN
       \/ /\ pt + split_size > size
          /\ split_size = size
          /\ sp_pc' = "done"
          /\ UNCHANGED <<points, counter>>
       \/ /\ pt + split_size > size
          /\ split_size # size
          /\ points' = Append(points, size - split_size)
          /\ sp_pc' = "done"
          /\ UNCHANGED counter
       \/ /\ ~(pt + split_size > size)
          /\ points' = Append(points, pt)
          /\ counter' = counter + 1
          /\ UNCHANGED sp_pc
    /\ UNCHANGED <<size, split_size, overlap>>
    /\ UNCHANGED <<drv_vars, fn_vars>>

\* one iteration of the while loop, lines 256-265
StartPointsIter ==
    /\ sp_pc = "loop"
    /\ counter <= MaxIter
    /\ LET pt == Stride(split_size, overlap) * counter IN
       \/ /\ pt + split_size >= size
          /\ split_size = size
          /\ sp_pc' = "done"
          /\ UNCHANGED <<points, counter>>
       \/ /\ pt + split_size >= size
          /\ split_size # size
          /\ points' = Append(points, size - split_size)
          /\ sp_pc' = "done"
          /\ UNCHANGED counter
       \/ /\ ~(pt + split_size >= size)
          /\ points' = Append(points, pt)
          /\ counter' = counter + 1
          /\ UNCHANGED sp_pc
    /\ UNCHANGED <<size, split_size, overlap>>
    /\ UNCHANGED <<drv_vars, fn_vars>>

\* the loop never exits when the stride is 0 and the axis is longer than the crop
StartPointsDiverges(L, T, ov) == Stride(T, ov) = 0 /\ L > T

\* start_points as a function, for the calls whose loop exits
RECURSIVE StartPointsFrom(_, _, _, _, _)
StartPointsFrom(L, T, stride, pts, cnt) ==
    LET pt == stride * cnt IN
    IF pt + T >= L
    THEN IF T = L THEN pts ELSE Append(pts, L - T)
    ELSE StartPointsFrom(L, T, stride, Append(pts, pt), cnt + 1)

start_points(L, T, ov) == StartPointsFrom(L, T, Stride(T, ov), <<0>>, 1)

(***************************************************************************)
(* Arrays.                                                                 *)
(***************************************************************************)
Zeros(h, w) == [r \in 0..(h - 1) |-> [c \in 0..(w - 1) |-> 0]]

\* an array whose pixel at (r, c) holds the positive number r*w + c + 1: the
\* value of a pixel tells where in its source it comes from, 0 is padding
Iota(h, w) == [r \in 0..(h - 1) |-> [c \in 0..(w - 1) |-> r * w + c + 1]]

\* the ends of the python slice [lo:hi] on an axis of length n, either end
\* possibly negative: <<first index, one past the last>>
SliceEnds(n, lo, hi) ==
    LET norm(i) == IF i < 0 THEN Max(i + n, 0) ELSE Min(i, n)
    IN  <<norm(lo), Max(norm(lo), norm(hi))>>

\* a[r0:r1, c0:c1, :] of an array a, as numpy cuts it
Slice2(a, r0, r1, c0, c1) ==
    LET re == SliceEnds(a.shape[1], r0, r1)
        ce == SliceEnds(a.shape[2], c0, c1)
        nr == re[2] - re[1]
        nc == ce[2] - ce[1]
    IN  [shape |-> <<nr, nc>> \o SubSeq(a.shape, 3, Len(a.shape)),
         px    |-> [r \in 0..(nr - 1) |->
                        [c \in 0..(nc - 1) |-> a.px[re[1] + r][ce[1] + c]]]]

(***************************************************************************)
(* create_dot_map (lines 200-205).                                         *)
(***************************************************************************)
\* lines 202-204: density[y, x] = 1. for each point, numpy indexing: an index
\* in [-n, 0) counts from the far end, an index outside [-n, n) raises IndexError
RECURSIVE DotMapFrom(_, _, _, _)
DotMapFrom(locs, d, h, w) ==
    IF locs = <<>> THEN [raised |-> "none", value |-> d]
    ELSE LET x == IntOf(Head(locs)[1])
             y == IntOf(Head(locs)[2])
         IN  IF y < -h \/ y >= h \/ x < -w \/ x >= w
             THEN [raised |-> "IndexError", value |-> d]
             ELSE LET yy == IF y < 0 THEN y + h ELSE y
                      xx == IF x < 0 THEN x + w ELSE x
                  IN  DotMapFrom(Tail(locs), [d EXCEPT ![yy][xx] = 1], h, w)

\* image_size is the shape (h, w, channels) of the image; the map is h x w
create_dot_map(locs, image_size) ==
    LET h == image_size[1]
        w == image_size[2]
    IN  DotMapFrom(locs, Zeros(h, w), h, w)

(***************************************************************************)
(* resize_rescale_info (lines 216-223).  The image is a PIL image, of      *)
(* which only the size matters here; the result is <<array, locations>>.   *)
(***************************************************************************)
\* a plausible slip: min written for max
ScaleOfMin(h, w, image_size) ==
    IF image_size * w >= image_size * h
    THEN CeilDiv(image_size, w)
    ELSE CeilDiv(image_size, h)

\* line 219: scale = np.ceil(max(image_size/h, image_size/w))
ScaleOf(h, w, image_size) ==
    IF image_size * w >= image_size * h    \* image_size/h >= image_size/w
    THEN CeilDiv(image_size, h)
    ELSE CeilDiv(image_size, w)

\* a plausible slip: each axis scaled by its own factor
RescalePerAxis(img, locs, image_size) ==
    LET h  == img.h
        w  == img.w
        fh == IF h < image_size THEN CeilDiv(image_size, h) ELSE 1
        fw == IF w < image_size THEN CeilDiv(image_size, w) ELSE 1
    IN  <<[shape |-> <<fh * h, fw * w, 3>>, px |-> Iota(fh * h, fw * w)],
          [i \in 1..Len(locs) |-> <<locs[i][1] * fw, locs[i][2] * fh>>]>>

resize_rescale_info(img, locs, image_size) ==
    LET h == img.h
        w == img.w
    IN  IF h < image_size \/ w < image_size
        THEN LET scale == ScaleOf(h, w, image_size)
                 h2 == scale * h
                 w2 == scale * w
             IN  <<[shape |-> <<h2, w2, 3>>, px |-> Iota(h2, w2)],
                   [i \in 1..Len(locs) |-> <<locs[i][1] * scale, locs[i][2] * scale>>]>>
        ELSE <<[shape |-> <<h, w, 3>>, px |-> Iota(h, w)], locs>>

(***************************************************************************)
(* create_non_overlapping_crops (lines 226-242).                           *)
(***************************************************************************)
\* lines 228-229: each side rounded up to a multiple of image_size
PadSide(n, image_size) == ((n - 1 + image_size) \div image_size) * image_size

\* a plausible slip: the source put at the low corner of the canvas
PadStartLow(padded, n) == 0

\* lines 232, 234: start = (padded - source) // 2
PadStart(padded, n) == (padded - n) \div 2

\* lines 230-237: the zero canvas with the source array a copied into it
PadArray(a, H, W, start_h, start_w) ==
    LET h == a.shape[1]
        w == a.shape[2]
    IN  [shape |-> <<H, W>> \o SubSeq(a.shape, 3, Len(a.shape)),
         px    |-> [r \in 0..(H - 1) |-> [c \in 0..(W - 1) |->
                      IF /\ start_h <= r /\ r < start_h + h
                         /\ start_w <= c /\ c < start_w + w
                      THEN a.px[r - start_h][c - start_w]
                      ELSE 0]]]

\* lines 240-241: rearrange '(p1 h) (p2 w) ... -> (p1 p2) h w ...': the tiles
\* of the canvas, row-major
Rearrange(a, image_size) ==
    LET P1 == a.shape[1] \div image_size
        P2 == a.shape[2] \div image_size
    IN  [n \in 1..(P1 * P2) |->
            LET p1 == (n - 1) \div P2
                p2 == (n - 1) % P2
            IN  Slice2(a, p1 * image_size, (p1 + 1) * image_size,
                          p2 * image_size, (p2 + 1) * image_size)]

\* the result is <<image tiles, density tiles>>; line 227 unpacks the shape of
\* the density into two names, which raises ValueError unless it has two axes,
\* and line 237 raises ValueError when the image does not fit the window
create_non_overlapping_crops(img, den, image_size) ==
    IF Len(den.shape) # 2
    THEN [raised |-> "ValueError", value |-> <<>>]
    ELSE LET H == PadSide(den.shape[1], image_size)
             W == PadSide(den.shape[2], image_size)
             start_h == PadStart(H, den.shape[1])
             start_w == PadStart(W, den.shape[2])
         IN  IF SubSeq(img.shape, 1, 2) # den.shape
             THEN [raised |-> "ValueError", value |-> <<>>]
             ELSE [raised |-> "none",
                   value  |-> <<Rearrange(PadArray(img, H, W, start_h, start_w), image_size),
                                Rearrange(PadArray(den, H, W, start_h, start_w), image_size)>>]

(***************************************************************************)
(* arrange_crops and create_overlapping_crops (lines 245-249, 269-281).    *)
(***************************************************************************)
\* lines 271-274: the crops, rows outermost
CutCrops(img, x_start, y_start, crop_size) ==
    Flatten([yi \in 1..Len(y_start) |->
               [xi \in 1..Len(x_start) |->
                  Slice2(img, y_start[yi], y_start[yi] + crop_size,
                              x_start[xi], x_start[xi] + crop_size)]])

SameShapes(crops) == \A i, j \in 1..Len(crops) : crops[i].shape = crops[j].shape

\* lines 275-281: np.stack raises ValueError on crops of different shapes; the
\* handler prints the shapes and the function returns the list of crops
arrange_crops(img, x_start, y_start, crop_size) ==
    LET crops == CutCrops(img, x_start, y_start, crop_size)
    IN  [raised |-> "none", stacked |-> SameShapes(crops), value |-> crops]

\* the call is made only when both start_points loops exit
create_overlapping_crops(img, crop_size, ov) ==
    LET X_points == start_points(img.shape[2], crop_size, ov)
        Y_points == start_points(img.shape[1], crop_size, ov)
    IN  arrange_crops(img, X_points, Y_points, crop_size)

(***************************************************************************)
(* setup_sub_folders (lines 284-296); the folders it makes are left out.   *)
(***************************************************************************)
\* a plausible slip: the last sublist cut like the others, the remainder lost
SubFoldersEven(list, ndevices) ==
    LET per_device == Len(list) \div ndevices
    IN  [d \in 1..ndevices |-> PySlice(list, (d - 1) * per_device, d * per_device)]

setup_sub_folders(list, ndevices) ==
    LET per_device == Len(list) \div ndevices
    IN  [d \in 1..(ndevices - 1) |->
            PySlice(list, (d - 1) * per_device, d * per_device)]
        \o <<PySlice(list, (ndevices - 1) * per_device, Len(list))>>

(***************************************************************************)
(* The parts of the state a specification leaves alone.                    *)
(***************************************************************************)
NoError == [exc |-> "none", at |-> "none"]

DriverOff ==
    /\ args = [mode |-> "none", image_size |-> 0, ndevices |-> 0,
               nkernels |-> 0, with_density |-> FALSE]
    /\ img_list = <<>> /\ sub_list = <<>>
    /\ device = 0 /\ idx = 0 /\ count = 0
    /\ pc = "off" /\ file = 0
    /\ image = <<>> /\ locations = <<>> /\ density = <<>>
    /\ images = <<>> /\ densities = <<>> /\ sub_index = 0
    /\ written = {} /\ visited = <<>> /\ error = NoError

StartOff ==
    /\ size = 0 /\ split_size = 0 /\ overlap = <<0, 1>>
    /\ points = <<>> /\ counter = 0 /\ sp_pc = "off"

FnOff == call = [fn |-> "none", args |-> <<>>] /\ ret = <<>> /\ fn_pc = "off"

(***************************************************************************)
(* SpecStart: calls of start_points, followed iteration by iteration.      *)
(***************************************************************************)
StartInputs ==
    ((1..MaxSize) \X (1..MaxSplit) \X Overlaps) \cup {<<300, 256, <<1, 2>>>>}

InitStart ==
    /\ DriverOff
    /\ FnOff
    /\ \E in \in StartInputs : StartPointsEntry(in[1], in[2], in[3])

NextStart == StartPointsIter

SpecStart == InitStart /\ [][NextStart]_vars

\* the interpreter runs the loop on: an iteration that can be taken is taken
FairStart == SpecStart /\ WF_vars(NextStart)

(***************************************************************************)
(* SpecFn: one call of a pure function on arguments drawn from small sets. *)
(***************************************************************************)
\* point coordinates, in units of 1/CoordDen pixel, around a map of side <= n
Coords(n) == (-(n + 1) * CoordDen)..((n + 1) * CoordDen)

PointLists(n) ==
    LET P == Coords(n) \X Coords(n)
    IN  {<<>>} \cup {<<p>> : p \in P}
               \cup {<<p, q>> : p \in P, q \in {<<0, 0>>, <<CoordDen, 0>>}}

PilImages == [h : 1..MaxDim, w : 1..MaxDim] \cup {[h |-> 100, w |-> 300]}

SomeLocations ==
    {<<>>, <<<<10 * CoordDen, 10 * CoordDen>>>>,
     <<<<1, CoordDen + 1>>, <<0, 0>>>>}

SourceArrays ==
    {[shape |-> <<h, w, 3>>, px |-> Iota(h, w)] : h \in 1..MaxDim, w \in 1..MaxDim}

\* density fields of two axes, as create_non_overlapping_crops expects, and of
\* three, as main builds them
DensityOf(img, k) ==
    [shape |-> IF k = 0 THEN SubSeq(img.shape, 1, 2)
                        ELSE <<img.shape[1], img.shape[2], k>>,
     px |-> img.px]

DotMapCalls ==
    {[fn |-> "create_dot_map", args |-> <<l, <<h, w, 3>>>>] :
        l \in PointLists(2), h \in 1..2, w \in 1..2}

RescaleCalls ==
    {[fn |-> "resize_rescale_info", args |-> <<i, l, m>>] :
        i \in PilImages, l \in SomeLocations, m \in (1..(MaxTile + 1)) \cup {256}}

BigSource == [shape |-> <<300, 300, 3>>, px |-> Iota(300, 300)]

NonOverlappingCalls ==
    {[fn |-> "create_non_overlapping_crops", args |-> <<i, DensityOf(i, k), m>>] :
        i \in SourceArrays, k \in 0..MaxKernels, m \in 1..MaxTile}
    \cup
    {[fn |-> "create_non_overlapping_crops", args |-> <<BigSource, DensityOf(BigSource, 0), 256>>]}

OverlappingCalls ==
    {[fn |-> "create_overlapping_crops", args |-> <<i, m, <<1, 2>>>>] :
        i \in SourceArrays, m \in 2..MaxTile}

InitFn ==
    /\ DriverOff
    /\ StartOff
    /\ \/ call \in DotMapCalls
       \/ call \in RescaleCalls
       \/ call \in NonOverlappingCalls
       \/ call \in OverlappingCalls
    /\ ret = <<>>
    /\ fn_pc = "call"

Apply(fn, result) ==
    /\ fn_pc = "call"
    /\ call.fn = fn
    /\ ret' = result
    /\ fn_pc' = "returned"
    /\ UNCHANGED <<call, drv_vars, sp_vars>>

CallCreateDotMap ==
    Apply("create_dot_map", create_dot_map(call.args[1], call.args[2]))

CallResizeRescaleInfo ==
    Apply("resize_rescale_info",
          resize_rescale_info(call.args[1], call.args[2], call.args[3]))

CallCreateNonOverlappingCrops ==
    Apply("create_non_overlapping_crops",
          create_non_overlapping_crops(call.args[1], call.args[2], call.args[3]))

CallCreateOverlappingCrops ==
    Apply("create_overlapping_crops",
          create_overlapping_crops(call.args[1], call.args[2], call.args[3]))

NextFn ==
    \/ CallCreateDotMap
    \/ CallResizeRescaleInfo
    \/ CallCreateNonOverlappingCrops
    \/ CallCreateOverlappingCrops

SpecFn == InitFn /\ [][NextFn]_vars

(***************************************************************************)
(* Spec: main (lines 55-177).  The kernels are 1 x 1 (kernel_size 1), for  *)
(* which the convolution of line 128 returns the dot map in every channel. *)
(* An exception is caught nowhere in main: it ends the run.                *)
(***************************************************************************)
Modes == {"train", "test", "val"}

ArgSets ==
    [mode : Modes, image_size : {-1} \cup (1..MaxCrop), ndevices : 1..MaxDevices,
     nkernels : 1..MaxKernels, with_density : BOOLEAN]

\* what a ground-truth file may hold: point lists, in units of 1/CoordDen pixel
AnnotatedLocations ==
    {<<>>, <<<<0, 0>>>>, <<<<CoordDen, 1>>, <<0, CoordDen>>>>,
     <<<<-1, 0>>, <<MaxImgDim * CoordDen, 0>>>>}

\* the state after line 88: the arguments are parsed, the files not yet listed
Init ==
    /\ StartOff
    /\ FnOff
    /\ args \in ArgSets
    /\ \E n \in 0..MaxList : img_list = [i \in 1..n |-> i]
    /\ sub_list = <<>>
    /\ device = 0 /\ idx = 0 /\ count = 0
    /\ pc = "start" /\ file = 0
    /\ image = <<>> /\ locations = <<>> /\ density = <<>>
    /\ images = <<>> /\ densities = <<>> /\ sub_index = 0
    /\ written = {} /\ visited = <<>> /\ error = NoError

Raise(name, fn) == pc' = "crashed" /\ error' = [exc |-> name, at |-> fn]

Tiling == args.mode = "train" \/ args.mode = "test"

\* lines 90-101: the image list is split into the sublists of the devices
Setup ==
    /\ pc = "start"
    /\ sub_list' = setup_sub_folders(img_list, args.ndevices)
    /\ pc' = "loop"
    /\ UNCHANGED <<args, img_list, device, idx, count, file, image, locations,
                   density, images, densities, sub_index, written, visited, error>>
    /\ UNCHANGED <<sp_vars, fn_vars>>

\* lines 103-105: the two for loops; the names of the iteration before are
\* bound again before they are read, and are cleared here
NextFile ==
    /\ pc = "loop"
    /\ \/ /\ idx < Len(sub_list[device + 1])
          /\ file' = sub_list[device + 1][idx + 1]
          /\ idx' = idx + 1
          /\ count' = count + 1
          /\ visited' = Append(visited, sub_list[device + 1][idx + 1])
          /\ image' = <<>> /\ locations' = <<>> /\ density' = <<>>
          /\ images' = <<>> /\ densities' = <<>> /\ sub_index' = 0
          /\ pc' = "load"
          /\ UNCHANGED device
       \/ /\ idx >= Len(sub_list[device + 1])
          /\ device + 1 < Len(sub_list)
          /\ device' = device + 1
          /\ idx' = 0
          /\ UNCHANGED <<pc, file, count, visited, image, locations, density,
                         images, densities, sub_index>>
       \/ /\ idx >= Len(sub_list[device + 1])
          /\ device + 1 >= Len(sub_list)
          /\ pc' = "done"
          /\ UNCHANGED <<device, idx, file, count, visited, image, locations,
                         density, images, densities, sub_index>>
    /\ UNCHANGED <<args, img_list, sub_list, written, error>>
    /\ UNCHANGED <<sp_vars, fn_vars>>

\* lines 109-112: the image is opened and its ground-truth file read; loadmat
\* raises when the file is absent or is no annotation
Load ==
    /\ pc = "load"
    /\ \/ /\ \E h \in 1..MaxImgDim, w \in 1..MaxImgDim, l \in AnnotatedLocations :
                /\ image' = [h |-> h, w |-> w]
                /\ locations' = l
          /\ pc' = "resize"
          /\ UNCHANGED error
       \/ /\ \E h \in 1..MaxImgDim, w \in 1..MaxImgDim : image' = [h |-> h, w |-> w]
          /\ Raise("FileNotFoundError", "loadmat")
          /\ UNCHANGED locations
    /\ UNCHANGED <<args, img_list, sub_list, device, idx, count, file, density,
                   images, densities, sub_index, written, visited>>
    /\ UNCHANGED <<sp_vars, fn_vars>>

\* lines 115-121
Rescale ==
    /\ pc = "resize"
    /\ IF args.image_size # -1 /\ Tiling
       THEN LET r == resize_rescale_info(image, locations, args.image_size)
            IN  image' = r[1] /\ locations' = r[2]
       ELSE /\ image' = [shape |-> <<image.h, image.w, 3>>, px |-> Iota(image.h, image.w)]
            /\ UNCHANGED locations
    /\ pc' = "density"
    /\ UNCHANGED <<args, img_list, sub_list, device, idx, count, file, density,
                   images, densities, sub_index, written, visited, error>>
    /\ UNCHANGED <<sp_vars, fn_vars>>

\* line 128: kernel(density) is the h x w map with its axes of length 1 squeezed out
Squeezed(shape) == SelectSeq(shape, LAMBDA n : n # 1)

\* lines 124-130: the dot map, one channel per kernel, stacked and transposed
\* to (h, w, K); transpose(1,2,0) raises ValueError on an array without 3 axes
Density ==
    /\ pc = "density"
    /\ LET dot == create_dot_map(locations, image.shape)
           stacked == <<args.nkernels>> \o Squeezed(SubSeq(image.shape, 1, 2))
       IN  IF dot.raised # "none"
           THEN Raise(dot.raised, "create_dot_map") /\ UNCHANGED density
           ELSE IF Len(stacked) # 3
           THEN Raise("ValueError", "main") /\ UNCHANGED density
           ELSE /\ density' = [shape |-> <<stacked[2], stacked[3], stacked[1]>>,
                               px |-> dot.value]
                /\ pc' = "crop"
                /\ UNCHANGED error
    /\ UNCHANGED <<args, img_list, sub_list, device, idx, count, file, image,
                   locations, images, densities, sub_index, written, visited>>
    /\ UNCHANGED <<sp_vars, fn_vars>>

\* lines 133-140
Crop ==
    /\ pc = "crop"
    /\ IF args.image_size = -1
       THEN /\ images' = <<image>>
            /\ densities' = <<density>>
            /\ pc' = "save"
            /\ UNCHANGED error
       ELSE IF Tiling
       THEN IF \/ StartPointsDiverges(image.shape[2], args.image_size, <<1, 2>>)
               \/ StartPointsDiverges(image.shape[1], args.image_size, <<1, 2>>)
            THEN /\ pc' = "hung"
                 /\ UNCHANGED <<images, densities, error>>
            ELSE /\ images' = create_overlapping_crops(image, args.image_size, <<1, 2>>).value
                 /\ densities' = create_overlapping_crops(density, args.image_size, <<1, 2>>).value
                 /\ pc' = "save"
                 /\ UNCHANGED error
       ELSE LET r == create_non_overlapping_crops(image, density, args.image_size)
            IN  IF r.raised # "none"
                THEN Raise(r.raised, "create_non_overlapping_crops") /\ UNCHANGED <<images, densities>>
                ELSE /\ images' = r.value[1]
                     /\ densities' = r.value[2]
                     /\ pc' = "save"
                     /\ UNCHANGED error
    /\ UNCHANGED <<args, img_list, sub_list, device, idx, count, file, image,
                   locations, density, sub_index, written, visited>>
    /\ UNCHANGED <<sp_vars, fn_vars>>

\* lines 158-168: with --with_density the tile and the K density pictures are
\* put side by side and np.split cuts the row in two, which raises ValueError
\* when the width (K + 1) * w is odd
SplitFails(tile) ==
    args.with_density /\ ((args.nkernels + 1) * tile.shape[2]) % 2 = 1

\* lines 142-174: the tile pairs of zip(images, densities) are written
Save ==
    /\ pc = "save"
    /\ LET n == Min(Len(images), Len(densities))
       IN  IF n >= 1 /\ SplitFails(images[1])
           THEN Raise("ValueError", "main") /\ UNCHANGED <<sub_index, written>>
           ELSE /\ sub_index' = n
                /\ written' = written \cup {<<device + 1, file>>}
                /\ pc' = "loop"
                /\ UNCHANGED error
    /\ UNCHANGED <<args, img_list, sub_list, device, idx, count, file, image,
                   locations, density, images, densities, visited>>
    /\ UNCHANGED <<sp_vars, fn_vars>>

Next ==
    \/ Setup
    \/ NextFile
    \/ Load
    \/ Rescale
    \/ Density
    \/ Crop
    \/ Save

Spec == Init /\ [][Next]_vars

(***************************************************************************)
(* Properties.                                                             *)
(***************************************************************************)
Returned(fn) == fn_pc = "returned" /\ call.fn = fn

\* floor(split_size * (1 - overlap)): the largest s with s <= T * (d - n) / d
FloorStride ==
    CHOOSE s \in 0..split_size :
        /\ s * overlap[2] <= split_size * (overlap[2] - overlap[1])
        /\ (s + 1) * overlap[2] > split_size * (overlap[2] - overlap[1])

\* the smallest k >= 1 with k*s + T >= L, for s >= 1 and L >= 1
LeastCount(L, T, s) ==
    CHOOSE k \in 1..L : k * s + T >= L /\ \A j \in 1..(k - 1) : j * s + T < L

\* C1: for an axis length L >= T and a stride s >= 1, start_points returns
\* 0, s, ..., (k-1)s followed by L - T, k the smallest integer >= 1 with
\* k*s + T >= L, and returns <<0>> alone when L = T; L = 300, T = 256 at
\* overlap 0.5 gives <<0, 44>>.
C1_StartPointsSequence ==
    (sp_pc = "done" /\ size >= split_size /\ FloorStride >= 1) =>
        LET s == FloorStride
            k == LeastCount(size, split_size, s)
        IN  /\ size = split_size => points = <<0>>
            /\ size # split_size =>
                 points = [i \in 1..(k + 1) |->
                             IF i <= k THEN (i - 1) * s ELSE size - split_size]
            /\ (size = 300 /\ split_size = 256 /\ overlap = <<1, 2>>) =>
                 points = <<0, 44>>

C1_Witness ==
    /\ sp_pc = "done" /\ size > split_size
    /\ FloorStride >= 2
    /\ Len(points) >= 4

\* the smallest multiple of T that is >= n
LeastMultiple(n, T) ==
    CHOOSE m \in 1..(n + T) : m % T = 0 /\ m >= n /\ m - T < n

\* pixel (r, c) of tile number n (1-based, row-major) of a canvas Hc x Wc that
\* holds the source src with its corner at (oh, ow) and 0 elsewhere
ExpectedTilePixel(src, Wc, oh, ow, T, n, r, c) ==
    LET R == ((n - 1) \div (Wc \div T)) * T + r
        C == ((n - 1) % (Wc \div T)) * T + c
    IN  IF /\ oh <= R /\ R < oh + src.shape[1]
           /\ ow <= C /\ C < ow + src.shape[2]
        THEN src.px[R - oh][C - ow]
        ELSE 0

\* C2: create_non_overlapping_crops on an H x W source and tile size T pads to
\* the smallest multiples of T, puts the source at floor((canvas - source)/2)
\* on each axis (the odd pixel of padding on the high side) and returns
\* ceil(H/T) x ceil(W/T) tiles, row-major, image and density cut alike;
\* 300 x 300 at T = 256 gives a 512 x 512 canvas, offset 106 and 4 tiles.
C2_NonOverlappingTiles ==
    (Returned("create_non_overlapping_crops") /\ Len(call.args[2].shape) = 2) =>
        LET img == call.args[1]
            den == call.args[2]
            T   == call.args[3]
            H   == den.shape[1]
            W   == den.shape[2]
            Hc  == LeastMultiple(H, T)
            Wc  == LeastMultiple(W, T)
            oh  == (Hc - H) \div 2
            ow  == (Wc - W) \div 2
            n   == CeilDiv(H, T) * CeilDiv(W, T)
        IN  /\ ret.raised = "none"
            /\ oh <= Hc - H - oh /\ Hc - H - oh <= oh + 1
            /\ ow <= Wc - W - ow /\ Wc - W - ow <= ow + 1
            /\ Len(ret.value[1]) = n /\ Len(ret.value[2]) = n
            /\ \A i \in 1..n :
                 /\ ret.value[1][i].shape = <<T, T, 3>>
                 /\ ret.value[2][i].shape = <<T, T>>
                 /\ \A r \in 0..(T - 1), c \in 0..(T - 1) :
                      /\ ret.value[1][i].px[r][c] =
                           ExpectedTilePixel(img, Wc, oh, ow, T, i, r, c)
                      /\ ret.value[2][i].px[r][c] =
                           ExpectedTilePixel(den, Wc, oh, ow, T, i, r, c)
            /\ (H = 300 /\ W = 300 /\ T = 256) =>
                 /\ Hc = 512 /\ Wc = 512 /\ oh = 106 /\ ow = 106 /\ n = 4
                 /\ ret.value[2][1].px[106][106] = den.px[0][0]
                 /\ ret.value[2][4].px[405 - 256][405 - 256] = den.px[299][299]

\* a call whose padding is odd on one axis and that yields several tiles
C2_Witness ==
    /\ Returned("create_non_overlapping_crops")
    /\ Len(call.args[2].shape) = 2
    /\ ret.raised = "none"
    /\ call.args[2].shape = <<3, 4>> /\ call.args[3] = 2
    /\ Len(ret.value[1]) = 4

\* C3: resize_rescale_info with minimum size m on an h x w image returns the
\* dimensions and the points unchanged when h >= m and w >= m, and otherwise
\* multiplies both dimensions and every coordinate by the one factor
\* f = ceil(max(m/h, m/w)); m = 256 on 100 x 300 gives f = 3, 300 x 900, and
\* (10, 10) becomes (30, 30).
C3_RescaleOneFactor ==
    Returned("resize_rescale_info") =>
        LET h    == call.args[1].h
            w    == call.args[1].w
            locs == call.args[2]
            m    == call.args[3]
        IN  IF h >= m /\ w >= m
            THEN ret[1].shape = <<h, w, 3>> /\ ret[2] = locs
            ELSE LET f == CHOOSE g \in 1..m :
                            /\ g * h >= m /\ g * w >= m
                            /\ (g - 1) * h < m \/ (g - 1) * w < m
                 IN  /\ ret[1].shape = <<f * h, f * w, 3>>
                     /\ Len(ret[2]) = Len(locs)
                     /\ \A i \in 1..Len(locs) :
                          ret[2][i] = <<f * locs[i][1], f * locs[i][2]>>
                     /\ (m = 256 /\ h = 100 /\ w = 300) =>
                          /\ f = 3 /\ ret[1].shape = <<300, 900, 3>>
                          /\ \A i \in 1..Len(locs) :
                               locs[i] = <<10 * CoordDen, 10 * CoordDen>> =>
                                 ret[2][i] = <<30 * CoordDen, 30 * CoordDen>>

\* a call that rescales an image whose two axes need different factors
C3_Witness ==
    /\ Returned("resize_rescale_info")
    /\ call.args[1].h < call.args[3]
    /\ call.args[1].w < call.args[1].h
    /\ CeilDiv(call.args[3], call.args[1].w) > CeilDiv(call.args[3], call.args[1].h)
    /\ Len(call.args[2]) = 2

\* C4: create_dot_map completes for every point set, drops a point whose
\* truncated coordinates are outside [0,width) x [0,height), and returns the
\* map that is 1 exactly at the truncated positions of the points in range.
C4_DotMapDropsOutOfRange ==
    Returned("create_dot_map") =>
        LET locs == call.args[1]
            h    == call.args[2][1]
            w    == call.args[2][2]
        IN  /\ ret.raised = "none"
            /\ \A r \in 0..(h - 1), c \in 0..(w - 1) :
                 ret.value[r][c] =
                    IF \E i \in 1..Len(locs) :
                          IntOf(locs[i][1]) = c /\ IntOf(locs[i][2]) = r
                    THEN 1 ELSE 0

\* C5: an image whose processing fails is skipped: no exception ends the run
\* of main, which goes on to the images after it and reaches its end.
C5_FailedImageIsSkipped == pc # "crashed"

\* C6: when the crops cut by arrange_crops differ in shape, arrange_crops
\* raises ShapeMismatch and returns nothing to its caller.
C6_ShapeMismatchRaised ==
    (/\ Returned("create_overlapping_crops")
     /\ \E i, j \in 1..Len(ret.value) : ret.value[i].shape # ret.value[j].shape)
        => ret.raised = "ShapeMismatch"

\* C7: in main with a tile size other than -1 and a mode that is neither
\* 'train' nor 'test', the H x W x K density field is tiled with the image:
\* create_non_overlapping_crops raises nothing and the iteration goes on to
\* save ceil(H/T) x ceil(W/T) image tiles and as many density tiles.
C7_DriverNonOverlappingTiles ==
    (args.image_size # -1 /\ ~Tiling) =>
        /\ error.at # "create_non_overlapping_crops"
        /\ pc = "save" =>
             LET n == CeilDiv(image.shape[1], args.image_size)
                        * CeilDiv(image.shape[2], args.image_size)
             IN  Len(images) = n /\ Len(densities) = n

\* the number of sublists that hold file f
Shards(f) ==
    Cardinality({d \in 1..Len(sub_list) :
                    \E i \in 1..Len(sub_list[d]) : sub_list[d][i] = f})

\* C8: setup_sub_folders returns exactly N contiguous sublists whose
\* concatenation is the image list, the first N-1 of floor(L/N) items and the
\* last with all the rest; the loop of main enters every image once, in one
\* shard, and has entered them all, in order, when it ends.
C8_ShardsPartitionList ==
    pc # "start" =>
        LET N == args.ndevices
            L == Len(img_list)
        IN  /\ Len(sub_list) = N
            /\ Flatten(sub_list) = img_list
            /\ \A d \in 1..(N - 1) : Len(sub_list[d]) = L \div N
            /\ Len(sub_list[N]) = L - (N - 1) * (L \div N)
            /\ \A i \in 1..L : Shards(img_list[i]) = 1
            /\ visited = SubSeq(img_list, 1, count)
            /\ pc = "done" => visited = img_list

\* a finished run over a list that does not divide evenly among the devices
C8_Witness ==
    /\ pc = "done"
    /\ Len(img_list) = MaxList
    /\ args.ndevices > 1
    /\ Len(img_list) % args.ndevices # 0
    /\ Cardinality(written) = MaxList

\* the offsets of tiles of side T on an axis of length L are inside the axis,
\* strictly increasing, and their windows cover every pixel
OffsetsFit(pts, L, T) ==
    /\ \A i \in 1..Len(pts) : 0 <= pts[i] /\ pts[i] + T <= L
    /\ \A i \in 1..(Len(pts) - 1) : pts[i] < pts[i + 1]
    /\ \A p \in 0..(L - 1) : \E i \in 1..Len(pts) : pts[i] <= p /\ p < pts[i] + T

\* C9: in 'train' or 'test' mode with tile size T >= 2 and overlap 0.5, after
\* resize_rescale_info the offsets of start_points on each axis are inside
\* the axis, strictly increasing and cover it, and every crop is T x T.
C9_OffsetsFitAfterRescale ==
    (Tiling /\ args.image_size >= 2 /\ pc \in {"density", "crop", "save"}) =>
        LET T == args.image_size
            X == start_points(image.shape[2], T, <<1, 2>>)
            Y == start_points(image.shape[1], T, <<1, 2>>)
        IN  /\ OffsetsFit(X, image.shape[2], T)
            /\ OffsetsFit(Y, image.shape[1], T)
            /\ pc = "save" =>
                 /\ Len(images) = Len(X) * Len(Y)
                 /\ Len(densities) = Len(X) * Len(Y)
                 /\ \A i \in 1..Len(images) :
                      /\ images[i].shape = <<T, T, 3>>
                      /\ densities[i].shape = <<T, T, args.nkernels>>

\* an image that was too small on one axis, rescaled and cut into crops the
\* last of which overlaps its neighbour
C9_Witness ==
    /\ Tiling /\ args.image_size >= 2 /\ pc = "save"
    /\ image.shape[1] = 2 /\ image.shape[2] = 6
    /\ Len(images) = 5

\* C10: for an overlap fraction in [0, 1], the loop of start_points exits if
\* and only if the stride is >= 1 or L <= T: with a stride >= 1 it exits
\* within ceil(L/stride) iterations, and with stride 0 and L > T it never
\* exits.
C10_TerminatesIffStride ==
    /\ [](( \/ FloorStride >= 1
            \/ size <= split_size) => <>(sp_pc = "done"))
    /\ []((FloorStride = 0 /\ size > split_size) => sp_pc # "done")
    /\ [](FloorStride >= 1 =>
            counter * FloorStride < size + FloorStride)

\* a loop with stride 0 on an axis longer than the crop, still running after
\* more iterations than the axis has pixels
C10_Witness ==
    /\ FloorStride = 0 /\ size > split_size
    /\ sp_pc = "loop"
    /\ counter > size

====
